---- MODULE Spec2Model ----
(***************************************************************************)
(* Model of the vector retrieval subsystem: VectorStore                    *)
(* (src/data_ingestion/vector_store.py) as it is driven by                 *)
(* RetrieverAgent.process (src/agents/retriever_agent.py).                 *)
(*                                                                         *)
(* A VectorStore instance is the record [model, embedding_dim, indexes,    *)
(* document_maps]; the storage directory is the record [meta, faiss,       *)
(* docmap].  A FAISS IndexFlatL2 is [d, vecs]: its dimension and the       *)
(* vectors in insertion order (position i of the index is vecs[i+1]).  A   *)
(* Python dict is the sequence of its entries in insertion order.          *)
(***************************************************************************)
EXTENDS Integers, Sequences, FiniteSets, TLC

\* ---------------------------------------------------------------- bounds
MaxDocs == 2        \* most vectors the model lets one collection hold
MaxBatch == 2       \* most documents in one add_documents call
MaxIds == 2         \* most ids in one delete_documents call
MaxK == 3           \* largest k passed to search
MaxCalls == 3       \* calls per run while the call history is recorded
EmbeddingDim == 2   \* length of the embedder's vectors (scaled down)
TtlSeconds == 2     \* ttl_seconds of @cached, in seconds (scaled down)
MaxTime == 4        \* the clock stops here
MaxAttempts == 2    \* max_attempts of find_available_port (scaled down)

IndexNames == {"default"}

Missing == "<missing>"      \* a key that the caller's dict does not have
EmptyMeta == "{}"           \* the {} default of doc.get('metadata', {})

\* The documents callers submit: two well-formed ones (the second has no
\* 'metadata' key) and one without a 'text' key.
ApplePie == [text |-> "apple pie", metadata |-> "dessert"]
BananaBread == [text |-> "banana bread", metadata |-> Missing]
NoTextDoc == [text |-> Missing, metadata |-> "dessert"]
InputDocs == {ApplePie, BananaBread, NoTextDoc}

Queries == {"apple", "banana bread"}

\* What goes wrong outside the store during one call: nothing, model.encode
\* raises, model.encode returns vectors of another length than the index
\* holds, or writing the files raises.
Faults == {"none", "encode_error", "encode_dim", "io_error"}

EncOf(fault) ==
  IF fault = "encode_error" THEN "error" ELSE IF fault = "encode_dim" THEN "dim" ELSE "ok"

IoOf(fault) == IF fault = "io_error" THEN "error" ELSE "ok"

\* Sequences over S of length lo..hi
SeqsOf(S, lo, hi) == UNION {[1..n -> S] : n \in lo..hi}

Range(s) == {s[i] : i \in 1..Len(s)}

\* ------------------------------------------------------------ the embedder
\* A deterministic test embedder: one integer coordinate per dimension.
Coord(text, i) ==
  CASE text = "apple pie" -> (IF i = 1 THEN 1 ELSE 0)
    [] text = "banana bread" -> (IF i <= 2 THEN 8 ELSE 0)
    [] OTHER -> 0

\* model.encode([text])[0] when the call returns: a vector of the model's
\* dimension, or of another length when the model differs from the one the
\* index was built with.
Encode(text, enc) ==
  IF enc = "dim" THEN [i \in 1..(EmbeddingDim + 1) |-> Coord(text, i)]
  ELSE [i \in 1..EmbeddingDim |-> Coord(text, i)]

\* Squared L2 distance of IndexFlatL2
RECURSIVE SumSq(_, _, _)
SumSq(u, v, n) ==
  IF n = 0 THEN 0 ELSE (u[n] - v[n]) * (u[n] - v[n]) + SumSq(u, v, n - 1)

L2(u, v) == SumSq(u, v, Len(u))

\* ------------------------------------------------- Python dict and str/int
\* str(doc_id) and int(doc_id_str) on the non-negative ids the store uses
Str(i) == ToString(i)

ParseInt(s) == CHOOSE i \in 0..(2 * MaxDocs + 2) : ToString(i) = s

HasKey(m, k) == \E i \in 1..Len(m) : m[i].key = k

DictGet(m, k) == m[CHOOSE i \in 1..Len(m) : m[i].key = k].doc

\* m[k] = v: replaces in place, or appends a new entry
DictSet(m, k, v) ==
  IF HasKey(m, k)
  THEN [i \in 1..Len(m) |-> IF m[i].key = k THEN [key |-> k, doc |-> v] ELSE m[i]]
  ELSE Append(m, [key |-> k, doc |-> v])

\* f[name] = v on a dict keyed by index name
Put(f, name, v) ==
  [n \in (DOMAIN f) \cup {name} |-> IF n = name THEN v ELSE f[n]]

\* f.pop(name)
Pop(f, name) == [n \in (DOMAIN f) \ {name} |-> f[n]]

NoIndexes == [n \in {} |-> <<>>]

\* ---------------------------------------------------------- file formats
\* faiss.write_index of an IndexFlatL2: the dimension, the number of vectors
\* and the vectors' components in one flat array
RECURSIVE Flatten(_, _)
Flatten(vecs, n) == IF n = 0 THEN <<>> ELSE Flatten(vecs, n - 1) \o vecs[n]

write_index(index) ==
  [d |-> index.d, ntotal |-> Len(index.vecs), xb |-> Flatten(index.vecs, Len(index.vecs))]

\* faiss.read_index: the flat array cut into ntotal vectors of d components
read_index(file) ==
  [d |-> file.d,
   vecs |-> [i \in 1..file.ntotal |-> [j \in 1..file.d |-> file.xb[(i - 1) * file.d + j]]]]

\* json.dump of a doc map: the members of one JSON object, in the dict's order
json_dump(m) == [i \in 1..Len(m) |-> <<m[i].key, m[i].doc.text, m[i].doc.metadata>>]

\* json.load: the members are set in a dict one after the other
RECURSIVE json_load(_, _)
json_load(members, n) ==
  IF n = 0 THEN <<>>
  ELSE DictSet(json_load(members, n - 1), members[n][1],
               [text |-> members[n][2], metadata |-> members[n][3]])

\* what load_indexes can find wrong in the storage directory: the file of that
\* kind is corrupted, unreadable or missing
Damages == {"none", "metadata", "faiss", "docmap"}

\* ---------------------------------------------------- VectorStore methods
\* save_indexes as it would be if the doc map files were not written
save_indexes_nodocmap(vs, dk, io) ==
  IF io = "error" THEN dk
  ELSE [meta |-> [n \in DOMAIN vs.indexes |->
                    [count |-> Len(vs.indexes[n].vecs), dimension |-> vs.indexes[n].d]],
        faiss |-> [n \in (DOMAIN dk.faiss) \cup (DOMAIN vs.indexes) |->
                    IF n \in DOMAIN vs.indexes THEN write_index(vs.indexes[n])
                    ELSE dk.faiss[n]],
        docmap |-> dk.docmap]

\* save_indexes: writes every index's .faiss file and doc map file, then the
\* metadata file; an exception (io = "error") is logged and swallowed.  The
\* failure modelled here is the first write failing, so nothing is written.
save_indexes(vs, dk, io) ==
  IF io = "error" THEN dk
  ELSE [meta |-> [n \in DOMAIN vs.indexes |->
                    [count |-> Len(vs.indexes[n].vecs), dimension |-> vs.indexes[n].d]],
        faiss |-> [n \in (DOMAIN dk.faiss) \cup (DOMAIN vs.indexes) |->
                    IF n \in DOMAIN vs.indexes THEN write_index(vs.indexes[n])
                    ELSE dk.faiss[n]],
        docmap |-> [n \in (DOMAIN dk.docmap)
                            \cup ((DOMAIN vs.indexes) \cap (DOMAIN vs.document_maps)) |->
                    IF n \in (DOMAIN vs.indexes) \cap (DOMAIN vs.document_maps)
                    THEN json_dump(vs.document_maps[n]) ELSE dk.docmap[n]]]

\* load_indexes on a freshly constructed store.  A metadata file that cannot
\* be parsed ends the load (outer except); otherwise every index the metadata
\* names is read when its .faiss file exists and can be read, and its doc map
\* when that file exists and can be parsed (inner except, after the index has
\* been stored).  Nothing is raised or returned.
load_indexes(vs, dk, damage) ==
  LET loaded == IF damage \in {"metadata", "faiss"} THEN {}
                ELSE (DOMAIN dk.meta) \cap (DOMAIN dk.faiss)
      mapped == IF damage = "docmap" THEN {} ELSE loaded \cap DOMAIN dk.docmap
  IN [vs EXCEPT
        !.indexes = [n \in (DOMAIN vs.indexes) \cup loaded |->
                       IF n \in loaded THEN read_index(dk.faiss[n]) ELSE vs.indexes[n]],
        !.document_maps = [n \in (DOMAIN vs.document_maps) \cup mapped |->
                       IF n \in mapped THEN json_load(dk.docmap[n], Len(dk.docmap[n]))
                       ELSE vs.document_maps[n]]]

\* VectorStore.__init__: the embedder loads (modelOk) or self.model = None
NewVectorStore(modelOk, dk, damage) ==
  load_indexes([model |-> modelOk, embedding_dim |-> EmbeddingDim,
                indexes |-> NoIndexes, document_maps |-> NoIndexes], dk, damage)

index_exists(vs, name) == name \in DOMAIN vs.indexes

\* create_index: a new empty IndexFlatL2 and an empty doc map under `name`,
\* whatever was stored under it; returns True
create_index(vs, name) ==
  [vs |-> [vs EXCEPT !.indexes = Put(@, name, [d |-> vs.embedding_dim, vecs |-> <<>>]),
                     !.document_maps = Put(@, name, <<>>)],
   ret |-> TRUE]

\* AddToDocMap as it would be if the loop wrote every document under next_id
\* instead of next_id + i: each document overwrites the one before it
AddToDocMap_samekey(m, documents, next_id, n) ==
  IF n = 0 THEN m
  ELSE DictSet(m, Str(next_id),
               [text |-> documents[n].text,
                metadata |-> IF documents[n].metadata = Missing THEN EmptyMeta
                             ELSE documents[n].metadata])

\* the doc map after the loop of add_documents over documents[1..n]
RECURSIVE AddToDocMap(_, _, _, _)
AddToDocMap(m, documents, next_id, n) ==
  IF n = 0 THEN m
  ELSE DictSet(AddToDocMap(m, documents, next_id, n - 1),
               Str(next_id + n - 1),
               [text |-> documents[n].text,
                metadata |-> IF documents[n].metadata = Missing
                             THEN EmptyMeta ELSE documents[n].metadata])

\* Insert as it would be if the new vectors went in front of the stored ones:
\* the position of a vector is then no longer the key of its document
Insert_front(vs, name, documents, embeddings) ==
  LET next_id == Len(vs.document_maps[name])
  IN [vs EXCEPT
        !.indexes[name].vecs = embeddings \o @,
        !.document_maps[name] = AddToDocMap(@, documents, next_id, Len(documents))]

\* add_documents past its last raising statement: the vectors are appended to
\* the index and the documents entered in the doc map under next_id, next_id+1, ...
Insert(vs, name, documents, embeddings) ==
  LET next_id == Len(vs.document_maps[name])
  IN [vs EXCEPT
        !.indexes[name].vecs = @ \o embeddings,
        !.document_maps[name] = AddToDocMap(@, documents, next_id, Len(documents))]

\* add_documents as it would be if documents were embedded and inserted one by
\* one: the documents before the first one without 'text' are kept
add_documents_partial(vs, dk, name, documents, enc, io) ==
  IF ~vs.model THEN [vs |-> vs, dk |-> dk, ret |-> <<>>]
  ELSE
    LET vs1 == IF name \notin DOMAIN vs.indexes THEN create_index(vs, name).vs ELSE vs
        bad == {i \in 1..Len(documents) : documents[i].text = Missing}
        first_bad == IF bad = {} THEN Len(documents) + 1
                     ELSE CHOOSE i \in bad : \A j \in bad : i <= j
        prefix == SubSeq(documents, 1, first_bad - 1)
        embeddings == [i \in 1..Len(prefix) |-> Encode(prefix[i].text, enc)]
    IN IF \/ enc # "ok"
          \/ name \notin DOMAIN vs1.document_maps
          \/ Len(documents) = 0
       THEN [vs |-> vs1, dk |-> dk, ret |-> <<>>]
       ELSE LET vs2 == Insert(vs1, name, prefix, embeddings)
            IN [vs |-> vs2,
                dk |-> IF bad = {} THEN save_indexes(vs2, dk, io) ELSE dk,
                ret |-> IF bad = {} THEN [i \in 1..Len(documents) |->
                                            Len(vs1.document_maps[name]) + i - 1]
                        ELSE <<>>]

\* add_documents as it would be if the index took the embeddings without
\* comparing their length with its dimension
add_documents_anydim(vs, dk, name, documents, enc, io) ==
  IF ~vs.model THEN [vs |-> vs, dk |-> dk, ret |-> <<>>]
  ELSE
    LET vs1 == IF name \notin DOMAIN vs.indexes THEN create_index(vs, name).vs ELSE vs
        failed == [vs |-> vs1, dk |-> dk, ret |-> <<>>]
        embeddings == [i \in 1..Len(documents) |-> Encode(documents[i].text, enc)]
    IN IF \E i \in 1..Len(documents) : documents[i].text = Missing THEN failed
       ELSE IF enc = "error" THEN failed
       ELSE IF name \notin DOMAIN vs1.document_maps THEN failed
       ELSE IF Len(documents) = 0 THEN failed
       ELSE LET next_id == Len(vs1.document_maps[name])
                vs2 == Insert(vs1, name, documents, embeddings)
            IN [vs |-> vs2, dk |-> save_indexes(vs2, dk, io),
                ret |-> [i \in 1..Len(documents) |-> next_id + i - 1]]

\* add_documents: [vs, dk, ret] with ret the returned list of ids
add_documents(vs, dk, name, documents, enc, io) ==
  IF ~vs.model THEN [vs |-> vs, dk |-> dk, ret |-> <<>>]
  ELSE
    LET vs1 == IF name \notin DOMAIN vs.indexes THEN create_index(vs, name).vs ELSE vs
        failed == [vs |-> vs1, dk |-> dk, ret |-> <<>>]
        embeddings == [i \in 1..Len(documents) |-> Encode(documents[i].text, enc)]
    IN IF \E i \in 1..Len(documents) : documents[i].text = Missing THEN failed  \* KeyError
       ELSE IF enc = "error" THEN failed                       \* encode raises
       ELSE IF name \notin DOMAIN vs1.document_maps THEN failed \* KeyError
       ELSE IF Len(documents) = 0 THEN failed                  \* index.add: no 2-d array
       ELSE IF \E i \in 1..Len(embeddings) : Len(embeddings[i]) # vs1.indexes[name].d
            THEN failed                                         \* index.add: wrong d
       ELSE
         LET next_id == Len(vs1.document_maps[name])
             vs2 == Insert(vs1, name, documents, embeddings)
         IN [vs |-> vs2,
             dk |-> save_indexes(vs2, dk, io),
             ret |-> [i \in 1..Len(documents) |-> next_id + i - 1]]

\* similarity = 1.0 - min(distance / 100.0, 1.0), in hundredths
MaxDistance == 100

\* Similarity as it would be without the min(..., 1.0) clamp
Similarity_unclamped(distance) == 100 - distance

Similarity(distance) ==
  100 - (IF distance < MaxDistance THEN distance ELSE MaxDistance)

\* index.search(query, k): the positions FAISS reports, nearest first (the
\* -1 padding of a short result is left out).  FAISS fixes no order among
\* equal distances, so every order of a tie is a possible answer.
Rankings(vecs, q, k) ==
  LET n == Len(vecs)
      m == IF k < n THEN k ELSE n
      dist(p) == L2(q, vecs[p + 1])
  IN {r \in [1..m -> 0..(n - 1)] :
        /\ \A i, j \in 1..m : i < j => r[i] # r[j] /\ dist(r[i]) <= dist(r[j])
        /\ \A p \in 0..(n - 1) :
             (\A i \in 1..m : r[i] # p) => \A i \in 1..m : dist(r[i]) <= dist(p)}

\* the loop of search over indices[0][1..n]: a result for every position
\* whose str() is a key of the doc map
RECURSIVE Results(_, _, _, _, _)
Results(doc_map, vecs, q, r, n) ==
  IF n = 0 THEN <<>>
  ELSE LET rest == Results(doc_map, vecs, q, r, n - 1)
           idx == r[n]
       IN IF HasKey(doc_map, Str(idx))
          THEN Append(rest, [text |-> DictGet(doc_map, Str(idx)).text,
                             metadata |-> DictGet(doc_map, Str(idx)).metadata,
                             score |-> Similarity(L2(q, vecs[idx + 1])),
                             id |-> idx])
          ELSE rest

\* search: the set of lists the call can return
search(vs, name, query, k, enc) ==
  IF ~vs.model THEN {<<>>}
  ELSE IF name \notin DOMAIN vs.indexes THEN {<<>>}
  ELSE IF enc = "error" THEN {<<>>}                              \* encode raises
  ELSE IF Len(Encode(query, enc)) # vs.indexes[name].d THEN {<<>>}  \* index.search: wrong d
  ELSE IF k <= 0 THEN {<<>>}                                     \* index.search: k > 0
  ELSE IF name \notin DOMAIN vs.document_maps
       THEN {<<>>}           \* KeyError on the first hit, or no hit at all
  ELSE {Results(vs.document_maps[name], vs.indexes[name].vecs, Encode(query, enc), r, Len(r)) :
          r \in Rankings(vs.indexes[name].vecs, Encode(query, enc), k)}

\* remaining_docs of delete_documents: the entries of the doc map, in dict
\* order, whose int(key) is not among doc_ids
RECURSIVE RemainingDocs(_, _, _)
RemainingDocs(doc_map, doc_ids, n) ==
  IF n = 0 THEN <<>>
  ELSE LET rest == RemainingDocs(doc_map, doc_ids, n - 1)
       IN IF ParseInt(doc_map[n].key) \notin Range(doc_ids)
          THEN Append(rest, doc_map[n].doc)
          ELSE rest

\* delete_documents as it would be if it removed the listed entries and their
\* vectors in place and left the other documents under their keys
delete_documents_keepkeys(vs, dk, name, doc_ids, enc, io) ==
  IF name \notin DOMAIN vs.indexes THEN [vs |-> vs, dk |-> dk, ret |-> FALSE]
  ELSE IF name \notin DOMAIN vs.document_maps
       THEN [vs |-> vs, dk |-> dk, ret |-> FALSE]
  ELSE
    LET kept == SelectSeq(vs.document_maps[name],
                          LAMBDA e : ParseInt(e.key) \notin Range(doc_ids))
        vs2 == [vs EXCEPT
                  !.document_maps[name] = kept,
                  !.indexes[name].vecs = [i \in 1..Len(kept) |-> Encode(kept[i].doc.text, "ok")]]
    IN [vs |-> vs2, dk |-> save_indexes(vs2, dk, io), ret |-> TRUE]

\* delete_documents: [vs, dk, ret]; the index is dropped, created again and
\* refilled through add_documents, whose result is not looked at
delete_documents(vs, dk, name, doc_ids, enc, io) ==
  IF name \notin DOMAIN vs.indexes THEN [vs |-> vs, dk |-> dk, ret |-> FALSE]
  ELSE IF name \notin DOMAIN vs.document_maps
       THEN [vs |-> vs, dk |-> dk, ret |-> FALSE]                \* KeyError
  ELSE
    LET doc_map == vs.document_maps[name]
        remaining_docs == RemainingDocs(doc_map, doc_ids, Len(doc_map))
        popped == [vs EXCEPT !.indexes = Pop(@, name), !.document_maps = Pop(@, name)]
        created == create_index(popped, name).vs
    IN IF remaining_docs # <<>>
       THEN LET added == add_documents(created, dk, name, remaining_docs, enc, io)
            IN [vs |-> added.vs, dk |-> added.dk, ret |-> TRUE]
       ELSE [vs |-> created, dk |-> dk, ret |-> TRUE]

\* ------------------------------------------------------------------ state
VARIABLES
  model,          \* self.model is not None
  indexes,        \* self.indexes: index name -> [d, vecs]
  document_maps,  \* self.document_maps: index name -> doc map
  disk,           \* the files under vector_db_path: [meta, faiss, docmap]
  last,           \* the last call made, its arguments and what it returned
  tracking,       \* whether the call history below is recorded in this run
  calls,          \* history: number of calls made
  issued,         \* history: <<name, id, text>> for every id add_documents returned
  deleted_ids,    \* history: <<name, id>> removed by a successful delete_documents
  deleted_docs,   \* history: <<name, text>> removed by a successful delete_documents
  threads,        \* per thread sharing the store: the call it is in and its locals
  peer,           \* the VectorStore of a second process on the same directory
  cache,          \* web_scraper.cache: key -> [result, timestamp]
  now,            \* datetime.now(), in seconds
  callers,        \* per thread calling a @cached function: where it is in wrapper
  supervisor,     \* start.py main: where it is, its children and their ports
  ports_in_use    \* the ports of localhost something listens on

store == <<model, indexes, document_maps>>
scraper == <<cache, now, callers>>
launcher == <<supervisor, ports_in_use>>
vars == <<model, indexes, document_maps, disk, last,
          tracking, calls, issued, deleted_ids, deleted_docs, threads, peer,
          cache, now, callers, supervisor, ports_in_use>>

\* the VectorStore instance in use
Self == [model |-> model, embedding_dim |-> EmbeddingDim,
         indexes |-> indexes, document_maps |-> document_maps]

EmptyDisk == [meta |-> NoIndexes, faiss |-> NoIndexes, docmap |-> NoIndexes]

NoCall == [op |-> "init", name |-> "", documents |-> <<>>, doc_ids |-> <<>>,
           query |-> "", k |-> 0, fault |-> "none",
           success |-> TRUE, ret_ids |-> <<>>, results |-> <<>>,
           error |-> FALSE, count |-> 0]

Size(name) == IF name \in DOMAIN indexes THEN Len(indexes[name].vecs) ELSE 0

\* the doc map entries and the vectors held under `name` (none when absent)
DocsOf(maps, name) == IF name \in DOMAIN maps THEN maps[name] ELSE <<>>

VecsOf(idx, name) == IF name \in DOMAIN idx THEN idx[name].vecs ELSE <<>>

StoredDocs(name) == DocsOf(document_maps, name)

SetStore(vs) ==
  /\ model' = vs.model
  /\ indexes' = vs.indexes
  /\ document_maps' = vs.document_maps

\* while the history is recorded, a run makes at most MaxCalls calls
CanCall == tracking => calls < MaxCalls

\* the history of a call that issued `new_issued` and removed `ids`, `docs`
Record(new_issued, ids, docs) ==
  /\ tracking' = tracking
  /\ calls' = IF tracking THEN calls + 1 ELSE calls
  /\ issued' = IF tracking THEN issued \cup new_issued ELSE issued
  /\ deleted_ids' = IF tracking THEN deleted_ids \cup ids ELSE deleted_ids
  /\ deleted_docs' = IF tracking THEN deleted_docs \cup docs ELSE deleted_docs
  /\ UNCHANGED <<threads, peer, scraper, launcher>>

\* the second process has not constructed its VectorStore
NoPeer == [started |-> FALSE, model |-> FALSE, embedding_dim |-> EmbeddingDim,
           indexes |-> NoIndexes, document_maps |-> NoIndexes]

\* the threads that may share one VectorStore
Threads == {1, 2}

\* a thread that is in no call and has made none
IdleThread == [pc |-> "idle", op |-> "none", name |-> "", documents |-> <<>>,
               doc_ids |-> <<>>, query |-> "", k |-> 0, caller |-> "none",
               next_id |-> 0, remaining_docs |-> <<>>, indices |-> <<>>, searched |-> <<>>,
               ret_ids |-> <<>>, results |-> <<>>, success |-> FALSE]

\* no @cached function has been called
NoCache == [key \in {} |-> [result |-> "", timestamp |-> 0]]

\* a thread that is in no @cached call and has made none
IdleCaller == [pc |-> "idle", key |-> <<>>, result |-> "", invoked |-> FALSE,
               outcome |-> "none"]

InitScraper ==
  /\ cache = NoCache
  /\ now = 0
  /\ callers = [t \in Threads |-> IdleCaller]

\* start.py has not been run
NotLaunched == [pc |-> "not_run", api |-> "none", streamlit |-> "none",
                api_port |-> 0, streamlit_port |-> 0]

InitLauncher ==
  /\ supervisor = NotLaunched
  /\ ports_in_use = {}

\* A first VectorStore on an empty storage directory
InitStore ==
  /\ model \in BOOLEAN
  /\ indexes = NoIndexes
  /\ document_maps = NoIndexes
  /\ disk = EmptyDisk
  /\ last = NoCall
  /\ calls = 0
  /\ issued = {}
  /\ deleted_ids = {}
  /\ deleted_docs = {}
  /\ threads = [t \in Threads |-> IdleThread]
  /\ peer = NoPeer

Init == InitStore /\ tracking = FALSE /\ InitScraper /\ InitLauncher

InitHistory == InitStore /\ tracking = TRUE /\ InitScraper /\ InitLauncher

\* ------------------------------------------------ RetrieverAgent.process
\* action 'create_index'
ProcessCreateIndex(name) ==
  LET r == create_index(Self, name)
  IN /\ CanCall
     /\ SetStore(r.vs)
     /\ last' = [NoCall EXCEPT !.op = "create_index", !.name = name, !.success = r.ret]
     /\ Record({}, {}, {})
     /\ UNCHANGED disk

\* action 'add_documents'
ProcessAddDocuments(name, documents, fault) ==
  /\ CanCall
  /\ IF documents = <<>>
     THEN /\ fault = "none"
          /\ last' = [NoCall EXCEPT !.op = "add_documents", !.name = name, !.error = TRUE]
          /\ Record({}, {}, {})
          /\ UNCHANGED <<store, disk>>
     ELSE LET r == add_documents(Self, disk, name, documents, EncOf(fault), IoOf(fault))
          IN /\ Len(VecsOf(r.vs.indexes, name)) <= MaxDocs
             /\ SetStore(r.vs)
             /\ disk' = r.dk
             /\ last' = [NoCall EXCEPT !.op = "add_documents", !.name = name,
                                       !.documents = documents, !.fault = fault,
                                       !.ret_ids = r.ret, !.count = Len(r.ret)]
             /\ Record({<<name, r.ret[i], documents[i].text>> : i \in 1..Len(r.ret)}, {}, {})

\* RetrieverAgent.add_to_knowledge: the documents go to add_documents as they
\* are, the empty list too; the caller gets the list of ids
AddToKnowledge(name, documents, fault) ==
  LET r == add_documents(Self, disk, name, documents, EncOf(fault), IoOf(fault))
  IN /\ CanCall
     /\ Len(VecsOf(r.vs.indexes, name)) <= MaxDocs
     /\ SetStore(r.vs)
     /\ disk' = r.dk
     /\ last' = [NoCall EXCEPT !.op = "add_to_knowledge", !.name = name,
                               !.documents = documents, !.fault = fault,
                               !.ret_ids = r.ret, !.count = Len(r.ret)]
     /\ Record({<<name, r.ret[i], documents[i].text>> : i \in 1..Len(r.ret)}, {}, {})

\* action 'search'
ProcessSearch(name, query, k, fault) ==
  /\ CanCall
  /\ \E res \in search(Self, name, query, k, EncOf(fault)) :
       last' = [NoCall EXCEPT !.op = "search", !.name = name, !.query = query,
                              !.k = k, !.fault = fault, !.results = res]
  /\ Record({}, {}, {})
  /\ UNCHANGED <<store, disk>>

\* action 'delete_documents'
ProcessDeleteDocuments(name, doc_ids, fault) ==
  /\ CanCall
  /\ IF doc_ids = <<>>
     THEN /\ fault = "none"
          /\ last' = [NoCall EXCEPT !.op = "delete_documents", !.name = name, !.error = TRUE]
          /\ Record({}, {}, {})
          /\ UNCHANGED <<store, disk>>
     ELSE LET r == delete_documents(Self, disk, name, doc_ids, EncOf(fault), IoOf(fault))
              held == IF r.ret THEN document_maps[name] ELSE <<>>
              hit == {i \in 1..Len(held) : ParseInt(held[i].key) \in Range(doc_ids)}
          IN /\ SetStore(r.vs)
             /\ disk' = r.dk
             /\ last' = [NoCall EXCEPT !.op = "delete_documents", !.name = name,
                                       !.doc_ids = doc_ids, !.fault = fault,
                                       !.success = r.ret, !.count = Len(doc_ids)]
             /\ Record({}, {<<name, ParseInt(held[i].key)>> : i \in hit},
                       {<<name, held[i].doc.text>> : i \in hit})

\* The process is started again: VectorStore() on the same storage directory,
\* in which a file that exists may have become unreadable (damage).  The
\* constructor returns normally whatever load_indexes met.
Restart(modelOk, damage) ==
  /\ CanCall
  /\ damage # "none" => DOMAIN disk.meta # {}
  /\ SetStore(NewVectorStore(modelOk, disk, damage))
  /\ last' = [NoCall EXCEPT !.op = "restart", !.fault = damage]
  /\ Record({}, {}, {})
  /\ UNCHANGED disk

Next ==
  \/ \E name \in IndexNames : ProcessCreateIndex(name)
  \/ \E name \in IndexNames, documents \in SeqsOf(InputDocs, 0, MaxBatch), fault \in Faults :
       ProcessAddDocuments(name, documents, fault)
  \/ \E name \in IndexNames, documents \in SeqsOf(InputDocs, 0, MaxBatch) :
       AddToKnowledge(name, documents, "none")
  \/ \E name \in IndexNames, query \in Queries, k \in 1..MaxK,
        fault \in Faults \ {"io_error"} :
       ProcessSearch(name, query, k, fault)
  \/ \E name \in IndexNames, doc_ids \in SeqsOf(0..MaxDocs, 0, MaxIds), fault \in Faults :
       ProcessDeleteDocuments(name, doc_ids, fault)
  \/ \E modelOk \in BOOLEAN, damage \in Damages : Restart(modelOk, damage)

\* every call sequence, without the call history
Spec == Init /\ [][Next]_vars

\* call sequences of at most MaxCalls calls, with the call history
SpecHistory == InitHistory /\ [][Next]_vars

\* ------------------------------------------ a process stopped while saving
\* the writes of save_indexes for one index after which the process may stop:
\* its .faiss file, then its doc map file; the metadata file is written last
SavePoints == {"faiss", "docmap"}

\* the files as save_indexes leaves them when the process stops right after the
\* write `point` of index `name`
save_indexes_until(vs, dk, name, point) ==
  [meta |-> dk.meta,
   faiss |-> Put(dk.faiss, name, write_index(vs.indexes[name])),
   docmap |-> IF point = "docmap" /\ name \in DOMAIN vs.document_maps
              THEN Put(dk.docmap, name, json_dump(vs.document_maps[name]))
              ELSE dk.docmap]

\* add_documents reaches save_indexes, the process stops after the write
\* `point`, and a new process constructs its VectorStore on the directory
CrashDuringSave(name, documents, point, modelOk) ==
  LET r == add_documents(Self, disk, name, documents, "ok", "error")
      dk == save_indexes_until(r.vs, disk, name, point)
  IN /\ CanCall
     /\ r.ret # <<>>
     /\ Len(VecsOf(r.vs.indexes, name)) <= MaxDocs
     /\ disk' = dk
     /\ SetStore(NewVectorStore(modelOk, dk, "none"))
     /\ last' = [NoCall EXCEPT !.op = "crash_during_save", !.name = name,
                               !.documents = documents, !.fault = point]
     /\ Record({}, {}, {})

NextCrash ==
  \/ Next
  \/ \E name \in IndexNames, documents \in SeqsOf(InputDocs, 1, MaxBatch),
        point \in SavePoints, modelOk \in BOOLEAN :
       CrashDuringSave(name, documents, point, modelOk)

\* call sequences of at most MaxCalls calls in which the process may stop
\* during a save
SpecCrash == InitHistory /\ [][NextCrash]_vars

\* ------------------------------------------------ RetrieverAgent.__init__
\* the initial knowledge documents of ensure_default_index (four in the
\* source, as many here as a collection may hold)
InitialDocs == <<[text |-> "stocks", metadata |-> "financial_knowledge"],
                 [text |-> "bonds", metadata |-> "financial_knowledge"]>>

\* ensure_default_index as it would be if it added the initial documents
\* without asking whether the index exists
ensure_default_index_always(vs, dk, enc, io) ==
  LET added == add_documents(vs, dk, "default", InitialDocs, enc, io)
  IN [vs |-> added.vs, dk |-> added.dk]

\* ensure_default_index: when 'default' does not exist it is created and the
\* initial documents are added; add_documents' result is not looked at
ensure_default_index(vs, dk, enc, io) ==
  IF ~index_exists(vs, "default")
  THEN LET added == add_documents(create_index(vs, "default").vs, dk, "default",
                                  InitialDocs, enc, io)
       IN [vs |-> added.vs, dk |-> added.dk]
  ELSE [vs |-> vs, dk |-> dk]

\* a process starts: RetrieverAgent() constructs its VectorStore on the
\* storage directory, the embedder loads, and the default index is ensured
AgentStart(fault) ==
  LET r == ensure_default_index(NewVectorStore(TRUE, disk, "none"), disk, "ok", IoOf(fault))
  IN /\ CanCall
     /\ SetStore(r.vs)
     /\ disk' = r.dk
     /\ last' = [NoCall EXCEPT !.op = "agent_start", !.name = "default", !.fault = fault]
     /\ Record({}, {}, {})

\* another RetrieverAgent is constructed on the running VectorStore
AgentAgain(fault) ==
  LET r == ensure_default_index(Self, disk, "ok", IoOf(fault))
  IN /\ CanCall
     /\ last.op # "init"
     /\ model
     /\ SetStore(r.vs)
     /\ disk' = r.dk
     /\ last' = [NoCall EXCEPT !.op = "agent_again", !.name = "default", !.fault = fault]
     /\ Record({}, {}, {})

\* the collections used beside the default one
SeedNames == {"default", "notes"}

NextSeed ==
  \/ \E fault \in {"none", "io_error"} : AgentStart(fault)
  \/ \E fault \in {"none", "io_error"} : AgentAgain(fault)
  \/ \E name \in SeedNames, documents \in SeqsOf(InputDocs, 1, MaxBatch),
        fault \in {"none", "io_error"} :
       last.op # "init" /\ ProcessAddDocuments(name, documents, fault)
  \/ \E name \in SeedNames, query \in Queries, k \in 1..MaxK :
       last.op # "init" /\ ProcessSearch(name, query, k, "none")

\* processes that start, construct agents, add and search, with a working
\* embedder and no deletes
SpecSeed == Init /\ [][NextSeed]_vars

\* ------------------------------------- two processes on one directory
\* The API server and the Streamlit app each construct a VectorStore on the
\* default path; each keeps its own indexes and doc maps in memory and both
\* write the same files.

\* the second process constructs its VectorStore (embedder loaded)
PeerStart ==
  LET vs == NewVectorStore(TRUE, disk, "none")
  IN /\ peer' = [started |-> TRUE, model |-> vs.model, embedding_dim |-> vs.embedding_dim,
                 indexes |-> vs.indexes, document_maps |-> vs.document_maps]
     /\ last' = [NoCall EXCEPT !.op = "peer_start"]
     /\ UNCHANGED <<store, disk, tracking, calls, issued, deleted_ids, deleted_docs, threads>>
     /\ UNCHANGED <<scraper, launcher>>

\* add_documents on the second process's VectorStore
PeerAdd(name, documents) ==
  LET r == add_documents([model |-> peer.model, embedding_dim |-> peer.embedding_dim,
                          indexes |-> peer.indexes, document_maps |-> peer.document_maps],
                         disk, name, documents, "ok", "ok")
  IN /\ peer.started
     /\ Len(VecsOf(r.vs.indexes, name)) <= MaxDocs
     /\ peer' = [peer EXCEPT !.indexes = r.vs.indexes, !.document_maps = r.vs.document_maps]
     /\ disk' = r.dk
     /\ last' = [NoCall EXCEPT !.op = "peer_add_documents", !.name = name,
                               !.documents = documents, !.ret_ids = r.ret,
                               !.count = Len(r.ret)]
     /\ UNCHANGED <<store, tracking, calls, issued, deleted_ids, deleted_docs, threads>>
     /\ UNCHANGED <<scraper, launcher>>

NextShared ==
  \/ \E name \in IndexNames, documents \in SeqsOf(InputDocs, 0, MaxBatch), fault \in Faults :
       ProcessAddDocuments(name, documents, fault)
  \/ \E modelOk \in BOOLEAN : Restart(modelOk, "none")
  \/ PeerStart
  \/ \E name \in IndexNames, documents \in SeqsOf(InputDocs, 1, MaxBatch) :
       PeerAdd(name, documents)

\* two processes that add documents and restart; nothing is deleted
SpecShared == Init /\ [][NextShared]_vars

\* ------------------------------------------- threads sharing one store
\* VectorStore takes no lock.  Two threads that call the methods of one
\* instance run them statement by statement in any order; each action below
\* is one statement (or one loop) of a method, run by thread t.  The embedder
\* is loaded and nothing fails from outside.

\* the documents the threads add and the ids they delete: "apple pie", stored
\* under id 0 from the start, is never named by a delete
ThreadDocs == {BananaBread}
ThreadIds == 1..MaxDocs

Me(t) == threads[t]

\* thread t goes on with the fields of `upd` changed
Goto(t, upd) ==
  threads' = [threads EXCEPT ![t] = [f \in DOMAIN IdleThread |->
                                       IF f \in DOMAIN upd THEN upd[f] ELSE threads[t][f]]]

\* the call of thread t returns: its locals are dropped
Return(t, upd) ==
  Goto(t, [pc |-> "done", caller |-> "none", next_id |-> 0, remaining_docs |-> <<>>,
           indices |-> <<>>, searched |-> <<>>] @@ upd)

\* add_documents returns `ids` in thread t: to the caller of the thread, or to
\* the delete_documents that called it, which ignores the ids and returns True
ReturnFromAdd(t, ids) ==
  IF Me(t).caller = "delete_documents"
  THEN Return(t, [success |-> TRUE])
  ELSE Return(t, [ret_ids |-> ids])

CanBegin(t) ==
  /\ calls < MaxCalls
  /\ Me(t).pc \in {"idle", "done"}

Begun ==
  /\ UNCHANGED <<last, tracking, issued, deleted_ids, deleted_docs, peer, scraper, launcher>>
  /\ calls' = calls + 1

Stepped ==
  UNCHANGED <<last, tracking, calls, issued, deleted_ids, deleted_docs, peer, scraper, launcher>>

\* search, lines 225-231: the two early returns
ThreadSearch(t, name, query, k) ==
  /\ CanBegin(t)
  /\ IF ~model \/ name \notin DOMAIN indexes
     THEN Goto(t, [IdleThread EXCEPT !.pc = "done", !.op = "search", !.name = name,
                                     !.query = query, !.k = k])
     ELSE Goto(t, [IdleThread EXCEPT !.pc = "search_index", !.op = "search", !.name = name,
                                     !.query = query, !.k = k])
  /\ Begun
  /\ UNCHANGED <<store, disk>>

\* search, lines 235-240: the query is encoded and the index object searched
ThreadSearchIndex(t) ==
  /\ Me(t).pc = "search_index"
  /\ IF Me(t).name \notin DOMAIN indexes
     THEN Return(t, [results |-> <<>>])                               \* KeyError
     ELSE \E r \in Rankings(indexes[Me(t).name].vecs, Encode(Me(t).query, "ok"), Me(t).k) :
            Goto(t, [pc |-> "search_docs", indices |-> r,
                     searched |-> indexes[Me(t).name].vecs])
  /\ Stepped
  /\ UNCHANGED <<store, disk>>

\* search, lines 243-260: the loop over the indices, run in one piece
ThreadSearchDocs(t) ==
  /\ Me(t).pc = "search_docs"
  /\ IF Me(t).indices # <<>> /\ Me(t).name \notin DOMAIN document_maps
     THEN Return(t, [results |-> <<>>])                               \* KeyError
     ELSE Return(t, [results |-> Results(DocsOf(document_maps, Me(t).name), Me(t).searched,
                                         Encode(Me(t).query, "ok"), Me(t).indices,
                                         Len(Me(t).indices))])
  /\ Stepped
  /\ UNCHANGED <<store, disk>>

\* delete_documents, lines 276-278
ThreadDelete(t, name, doc_ids) ==
  /\ CanBegin(t)
  /\ IF name \notin DOMAIN indexes
     THEN Goto(t, [IdleThread EXCEPT !.pc = "done", !.op = "delete_documents",
                                     !.name = name, !.doc_ids = doc_ids])
     ELSE Goto(t, [IdleThread EXCEPT !.pc = "delete_collect", !.op = "delete_documents",
                                     !.name = name, !.doc_ids = doc_ids])
  /\ Begun
  /\ UNCHANGED <<store, disk>>

\* delete_documents, lines 283-291: the remaining documents are collected
ThreadDeleteCollect(t) ==
  /\ Me(t).pc = "delete_collect"
  /\ IF Me(t).name \notin DOMAIN document_maps
     THEN Return(t, [success |-> FALSE])                              \* KeyError
     ELSE Goto(t, [pc |-> "delete_pop_index",
                   remaining_docs |-> RemainingDocs(document_maps[Me(t).name], Me(t).doc_ids,
                                                    Len(document_maps[Me(t).name]))])
  /\ Stepped
  /\ UNCHANGED <<store, disk>>

\* delete_documents, line 294: self.indexes.pop(index_name)
ThreadDeletePopIndex(t) ==
  /\ Me(t).pc = "delete_pop_index"
  /\ IF Me(t).name \notin DOMAIN indexes
     THEN Return(t, [success |-> FALSE]) /\ UNCHANGED indexes         \* KeyError
     ELSE Goto(t, [pc |-> "delete_pop_docmap"]) /\ indexes' = Pop(indexes, Me(t).name)
  /\ Stepped
  /\ UNCHANGED <<model, document_maps, disk>>

\* delete_documents, line 295: self.document_maps.pop(index_name)
ThreadDeletePopDocMap(t) ==
  /\ Me(t).pc = "delete_pop_docmap"
  /\ IF Me(t).name \notin DOMAIN document_maps
     THEN Return(t, [success |-> FALSE]) /\ UNCHANGED document_maps   \* KeyError
     ELSE /\ Goto(t, [pc |-> "delete_create"])
          /\ document_maps' = Pop(document_maps, Me(t).name)
  /\ Stepped
  /\ UNCHANGED <<model, indexes, disk>>

\* delete_documents, lines 296-300: create_index, then add_documents is
\* entered when documents remain
ThreadDeleteCreate(t) ==
  /\ Me(t).pc = "delete_create"
  /\ SetStore(create_index(Self, Me(t).name).vs)
  /\ IF Me(t).remaining_docs # <<>>
     THEN Goto(t, [pc |-> "add_begin", caller |-> "delete_documents",
                   documents |-> Me(t).remaining_docs])
     ELSE Return(t, [success |-> TRUE])
  /\ Stepped
  /\ UNCHANGED disk

\* add_documents is called by thread t while the collection is not full
ThreadAdd(t, name, documents) ==
  /\ CanBegin(t)
  /\ Size(name) < MaxDocs
  /\ Goto(t, [IdleThread EXCEPT !.pc = "add_begin", !.op = "add_documents",
                                 !.name = name, !.documents = documents])
  /\ Begun
  /\ UNCHANGED <<store, disk>>

\* add_documents, lines 168-174: no embedder, or the index is created
ThreadAddBegin(t) ==
  /\ Me(t).pc = "add_begin"
  /\ IF ~model
     THEN ReturnFromAdd(t, <<>>) /\ UNCHANGED store
     ELSE /\ Goto(t, [pc |-> "add_next_id"])
          /\ IF Me(t).name \notin DOMAIN indexes
             THEN SetStore(create_index(Self, Me(t).name).vs)
             ELSE UNCHANGED store
  /\ Stepped
  /\ UNCHANGED disk

\* add_documents, lines 178-187: the texts are encoded, next_id is read
ThreadAddNextId(t) ==
  /\ Me(t).pc = "add_next_id"
  /\ IF \/ \E i \in 1..Len(Me(t).documents) : Me(t).documents[i].text = Missing
        \/ Me(t).name \notin DOMAIN document_maps
     THEN ReturnFromAdd(t, <<>>)                                      \* KeyError
     ELSE Goto(t, [pc |-> "add_index", next_id |-> Len(document_maps[Me(t).name])])
  /\ Stepped
  /\ UNCHANGED <<store, disk>>

\* add_documents, lines 190-191: index.add(embeddings)
ThreadAddIndex(t) ==
  /\ Me(t).pc = "add_index"
  /\ IF Me(t).name \notin DOMAIN indexes
     THEN ReturnFromAdd(t, <<>>) /\ UNCHANGED indexes                 \* KeyError
     ELSE /\ Goto(t, [pc |-> "add_docmap"])
          /\ indexes' = [indexes EXCEPT ![Me(t).name].vecs =
                           @ \o [i \in 1..Len(Me(t).documents) |->
                                   Encode(Me(t).documents[i].text, "ok")]]
  /\ Stepped
  /\ UNCHANGED <<model, document_maps, disk>>

\* add_documents, lines 194-201: the loop over the documents, run in one piece
ThreadAddDocMap(t) ==
  /\ Me(t).pc = "add_docmap"
  /\ IF Me(t).name \notin DOMAIN document_maps
     THEN ReturnFromAdd(t, <<>>) /\ UNCHANGED document_maps           \* KeyError
     ELSE /\ Goto(t, [pc |-> "add_save"])
          /\ document_maps' = [document_maps EXCEPT ![Me(t).name] =
                                 AddToDocMap(@, Me(t).documents, Me(t).next_id,
                                             Len(Me(t).documents))]
  /\ Stepped
  /\ UNCHANGED <<model, indexes, disk>>

\* add_documents, lines 205-208: save_indexes, then the ids are returned
ThreadAddSave(t) ==
  /\ Me(t).pc = "add_save"
  /\ disk' = save_indexes(Self, disk, "ok")
  /\ ReturnFromAdd(t, [i \in 1..Len(Me(t).documents) |-> Me(t).next_id + i - 1])
  /\ Stepped
  /\ UNCHANGED store

NextThreads ==
  \/ \E t \in Threads, name \in IndexNames, query \in Queries : ThreadSearch(t, name, query, MaxK)
  \/ \E t \in Threads : ThreadSearchIndex(t)
  \/ \E t \in Threads : ThreadSearchDocs(t)
  \/ \E t \in Threads, name \in IndexNames, doc_ids \in SeqsOf(ThreadIds, 1, 1) :
       ThreadDelete(t, name, doc_ids)
  \/ \E t \in Threads : ThreadDeleteCollect(t)
  \/ \E t \in Threads : ThreadDeletePopIndex(t)
  \/ \E t \in Threads : ThreadDeletePopDocMap(t)
  \/ \E t \in Threads : ThreadDeleteCreate(t)
  \/ \E t \in Threads, name \in IndexNames, documents \in SeqsOf(ThreadDocs, 1, 1) :
       ThreadAdd(t, name, documents)
  \/ \E t \in Threads : ThreadAddBegin(t)
  \/ \E t \in Threads : ThreadAddNextId(t)
  \/ \E t \in Threads : ThreadAddIndex(t)
  \/ \E t \in Threads : ThreadAddDocMap(t)
  \/ \E t \in Threads : ThreadAddSave(t)

\* the store after add_documents("default", [apple pie]) on an empty storage
\* directory, with the embedder loaded, and no thread in a call
InitThreads ==
  LET fresh == NewVectorStore(TRUE, EmptyDisk, "none")
      r == add_documents(fresh, EmptyDisk, "default", <<ApplePie>>, "ok", "ok")
  IN /\ model = r.vs.model
     /\ indexes = r.vs.indexes
     /\ document_maps = r.vs.document_maps
     /\ disk = r.dk
     /\ last = NoCall
     /\ tracking = TRUE
     /\ calls = 0
     /\ issued = {}
     /\ deleted_ids = {}
     /\ deleted_docs = {}
     /\ threads = [t \in Threads |-> IdleThread]
     /\ peer = NoPeer
     /\ InitScraper
     /\ InitLauncher

\* at most MaxCalls calls, made by two threads on one VectorStore
SpecThreads == InitThreads /\ [][NextThreads]_vars

\* ------------------------------------------------- web_scraper.cached
\* @cached(ttl_seconds=...) keeps results in the module's `cache` dict under
\* `cache_lock`. The lock is held while the entry is looked up and while it is
\* stored, and not while the wrapped function runs.

\* the calls made of the cached get_financial_news: self and the query
\* positionally, max_results positionally or by keyword
CachedCalls ==
  { [func |-> "get_financial_news", args |-> <<"WebScraper", "apple", 5>>, kwargs |-> <<>>],
    [func |-> "get_financial_news", args |-> <<"WebScraper", "apple">>,
     kwargs |-> << <<"max_results", 5>> >>] }

\* what the wrapped function may return
Fetched == {"headlines", "later headlines"}

\* key = f"{func.__name__}:{str(args)}:{str(kwargs)}"
CacheKey(call) == <<call.func, call.args, call.kwargs>>

\* the expiry test as it would be with the entry still served at age ttl
Fresh_inclusive(entry, time) == time - entry.timestamp <= TtlSeconds

\* datetime.now() - timestamp < timedelta(seconds=ttl_seconds)
Fresh(entry, time) == time - entry.timestamp < TtlSeconds

\* the step is the scraper's alone
NoStoreCall ==
  UNCHANGED <<store, disk, last, tracking, calls, issued, deleted_ids, deleted_docs,
              threads, peer, launcher>>

SetCaller(t, c) == callers' = [callers EXCEPT ![t] = c] /\ NoStoreCall

\* wrapper, first `with cache_lock`: a fresh entry is returned, otherwise the
\* thread goes on to call the function
CallerLookup(t, call) ==
  LET key == CacheKey(call)
  IN /\ callers[t].pc = "idle"
     /\ IF key \in DOMAIN cache /\ Fresh(cache[key], now)
        THEN SetCaller(t, [pc |-> "idle", key |-> key, result |-> cache[key].result,
                           invoked |-> FALSE, outcome |-> "returned"])
        ELSE SetCaller(t, [pc |-> "func", key |-> key, result |-> "",
                           invoked |-> FALSE, outcome |-> "none"])
     /\ UNCHANGED <<cache, now>>

\* result = func(*args, **kwargs): the function returns or raises
CallerInvoke(t, fetched) ==
  /\ callers[t].pc = "func"
  /\ IF fetched = "raise"
     THEN SetCaller(t, [callers[t] EXCEPT !.pc = "idle", !.invoked = TRUE,
                                          !.outcome = "raised"])
     ELSE SetCaller(t, [callers[t] EXCEPT !.pc = "store", !.invoked = TRUE,
                                          !.result = fetched])
  /\ UNCHANGED <<cache, now>>

\* wrapper, second `with cache_lock`: cache[key] = (result, datetime.now())
CallerStore(t) ==
  /\ callers[t].pc = "store"
  /\ cache' = Put(cache, callers[t].key, [result |-> callers[t].result, timestamp |-> now])
  /\ SetCaller(t, [callers[t] EXCEPT !.pc = "idle", !.outcome = "returned"])
  /\ UNCHANGED now

\* a second passes
Tick ==
  /\ now < MaxTime
  /\ now' = now + 1
  /\ UNCHANGED <<cache, callers>>
  /\ NoStoreCall

NextCache ==
  \/ \E t \in Threads, call \in CachedCalls : CallerLookup(t, call)
  \/ \E t \in Threads, fetched \in Fetched \cup {"raise"} : CallerInvoke(t, fetched)
  \/ \E t \in Threads : CallerStore(t)
  \/ Tick

\* two threads calling the cached function while time passes
InitCache == Init /\ model = TRUE

SpecCache == InitCache /\ [][NextCache]_vars

\* ------------------------------------------------------------- start.py
\* main starts the API server, waits, starts the Streamlit app and then polls
\* both children once a second until one stops or Ctrl+C arrives.

\* API_PORT and STREAMLIT_PORT when the environment does not set them
ApiPort == 8000
StreamlitPort == 8501

\* the ports start.py may probe
Ports == (ApiPort..(ApiPort + MaxAttempts)) \cup (StreamlitPort..(StreamlitPort + MaxAttempts))

is_port_in_use(port) == port \in ports_in_use

\* the first free port from start_port on; 0 stands for the RuntimeError raised
\* after max_attempts ports
RECURSIVE find_available_port(_, _)
find_available_port(start_port, max_attempts) ==
  IF max_attempts = 0 THEN 0
  ELSE IF ~is_port_in_use(start_port) THEN start_port
  ELSE find_available_port(start_port + 1, max_attempts - 1)

\* the port a child is started on: its own when free, otherwise the next free
PortFor(port) ==
  IF is_port_in_use(port) THEN find_available_port(port + 1, MaxAttempts) ELSE port

\* process.terminate(): a running child is sent SIGTERM
Terminate(child) == IF child = "running" THEN "terminated" ELSE child

\* the step is the launcher's alone
NoOtherCall ==
  UNCHANGED <<store, disk, last, tracking, calls, issued, deleted_ids, deleted_docs,
              threads, peer, scraper, ports_in_use>>

\* start_api_server: a failure to find a port or to start the process is
\* logged and ends in sys.exit(1)
StartApiServer(popen) ==
  LET port == PortFor(ApiPort)
  IN /\ supervisor.pc = "start_api"
     /\ supervisor' = IF port = 0 \/ popen = "error"
                      THEN [supervisor EXCEPT !.pc = "exited"]
                      ELSE [supervisor EXCEPT !.pc = "sleep", !.api = "running",
                                              !.api_port = port]
     /\ NoOtherCall

\* time.sleep(5) and the environment updates
WaitForApi ==
  /\ supervisor.pc = "sleep"
  /\ supervisor' = [supervisor EXCEPT !.pc = "start_streamlit"]
  /\ NoOtherCall

\* start_streamlit_app: a failure is logged and ends in sys.exit(1)
StartStreamlitApp(popen) ==
  LET port == PortFor(StreamlitPort)
  IN /\ supervisor.pc = "start_streamlit"
     /\ supervisor' = IF port = 0 \/ popen = "error"
                      THEN [supervisor EXCEPT !.pc = "exited"]
                      ELSE [supervisor EXCEPT !.pc = "loop", !.streamlit = "running",
                                              !.streamlit_port = port]
     /\ NoOtherCall

\* a child process ends by itself
ChildStops(child) ==
  /\ supervisor.pc # "exited"
  /\ supervisor[child] = "running"
  /\ supervisor' = [supervisor EXCEPT ![child] = "exited"]
  /\ NoOtherCall

\* one round of the loop that finds a child stopped: the other child is
\* terminated and main exits
Poll ==
  /\ supervisor.pc = "loop"
  /\ \/ /\ supervisor.api # "running"
        /\ supervisor' = [supervisor EXCEPT !.pc = "exited",
                                            !.streamlit = Terminate(supervisor.streamlit)]
     \/ /\ supervisor.api = "running"
        /\ supervisor.streamlit # "running"
        /\ supervisor' = [supervisor EXCEPT !.pc = "exited",
                                            !.api = Terminate(supervisor.api)]
  /\ NoOtherCall

\* Ctrl+C: inside the loop's try both children are terminated; before it the
\* KeyboardInterrupt is not caught and ends main
KeyboardInterrupt ==
  /\ supervisor.pc \in {"sleep", "start_streamlit", "loop"}
  /\ supervisor' = IF supervisor.pc = "loop"
                   THEN [supervisor EXCEPT !.pc = "exited",
                                           !.api = Terminate(supervisor.api),
                                           !.streamlit = Terminate(supervisor.streamlit)]
                   ELSE [supervisor EXCEPT !.pc = "exited"]
  /\ NoOtherCall

NextLaunch ==
  \/ \E popen \in {"ok", "error"} : StartApiServer(popen)
  \/ WaitForApi
  \/ \E popen \in {"ok", "error"} : StartStreamlitApp(popen)
  \/ \E child \in {"api", "streamlit"} : ChildStops(child)
  \/ Poll
  \/ KeyboardInterrupt

\* start.py is run on a machine where any of the ports may be taken
InitLaunch ==
  /\ InitStore /\ model = TRUE /\ tracking = FALSE
  /\ InitScraper
  /\ supervisor = [NotLaunched EXCEPT !.pc = "start_api"]
  /\ ports_in_use \in SUBSET Ports

SpecLaunch == InitLaunch /\ [][NextLaunch]_vars

\* ================================================================= claims
\* the step is a delete_documents call that reached the store and returned True
DeleteSucceeded ==
  /\ last'.op = "delete_documents"
  /\ ~last'.error
  /\ last'.success

\* the ids the delete_documents call of this step was given
Requested == Range(last'.doc_ids)

\* the doc map and the vectors of the collection this step's call names,
\* before and after the call
DocsBefore == DocsOf(document_maps, last'.name)
DocsAfter == DocsOf(document_maps', last'.name)
VecsBefore == VecsOf(indexes, last'.name)
VecsAfter == VecsOf(indexes', last'.name)

\* C1: create_index on a name that already exists returns failure and leaves
\* the documents and vectors stored under that name unchanged.
C1_CreateExistingFails ==
  [][(last'.op = "create_index" /\ index_exists(Self, last'.name))
       => /\ last'.success = FALSE
          /\ DocsAfter = DocsBefore
          /\ VecsAfter = VecsBefore]_vars

\* C2: within a collection an id is never reused: no id was returned by
\* add_documents for two different documents, and the document stored under an
\* id is the one add_documents returned that id for.
C2_IdsNeverReused ==
  /\ \A g, h \in issued : (g[1] = h[1] /\ g[2] = h[2]) => g[3] = h[3]
  /\ \A h \in issued :
       HasKey(StoredDocs(h[1]), Str(h[2]))
         => DictGet(StoredDocs(h[1]), Str(h[2])).text = h[3]

\* C3: a document that was never deleted is returned by search under the id
\* add_documents returned for it, with its original text.
C3_IdStableInSearch ==
  last.op = "search" =>
    \A i \in 1..Len(last.results) :
      <<last.name, last.results[i].text>> \notin deleted_docs
        => <<last.name, last.results[i].id, last.results[i].text>> \in issued

\* C4: a delete_documents that returns success keeps every document whose id
\* is not listed: it is still stored with the same text and metadata, and its
\* vector is in the index at the position of its key, whatever the embedder does.
C4_DeleteRemovesExactlyListed ==
  [][DeleteSucceeded =>
       \A i \in 1..Len(DocsBefore) :
         ParseInt(DocsBefore[i].key) \notin Requested =>
           \E j \in 1..Len(DocsAfter) :
             /\ DocsAfter[j].doc = DocsBefore[i].doc
             /\ ParseInt(DocsAfter[j].key) < Len(VecsAfter)
             /\ VecsAfter[ParseInt(DocsAfter[j].key) + 1]
                  = Encode(DocsBefore[i].doc.text, "ok")]_vars

\* C5: after a delete_documents that returns success (nothing failing during
\* the call), a fresh VectorStore on the same storage path holds no document
\* that the call deleted.
C5_DeletionSurvivesRestart ==
  [][(DeleteSucceeded /\ last'.fault = "none") =>
       \A i \in 1..Len(DocsBefore) :
         (/\ ParseInt(DocsBefore[i].key) \in Requested
          /\ \A j \in 1..Len(DocsBefore) :
               ParseInt(DocsBefore[j].key) \notin Requested
                 => DocsBefore[j].doc # DocsBefore[i].doc)
           => \A modelOk \in BOOLEAN :
                \A j \in 1..Len(DocsOf(NewVectorStore(modelOk, disk', "none").document_maps,
                                       last'.name)) :
                  DocsOf(NewVectorStore(modelOk, disk', "none").document_maps, last'.name)[j].doc
                    # DocsBefore[i].doc]_vars

\* C6: once an id has been deleted from a collection, no later search on that
\* collection returns a result carrying that id.
C6_DeletedIdNeverReturned ==
  last.op = "search" =>
    \A i \in 1..Len(last.results) : <<last.name, last.results[i].id>> \notin deleted_ids

\* C7: deleting the same ids twice in a row (nothing failing during either
\* call) succeeds both times, and the second call removes no document.
C7_DeleteIdempotent ==
  [][(/\ last.op = "delete_documents" /\ ~last.error /\ last.success
      /\ last.fault = "none"
      /\ last'.op = "delete_documents" /\ ~last'.error
      /\ last'.name = last.name
      /\ last'.doc_ids = last.doc_ids
      /\ last'.fault = "none")
       => /\ last'.success
          /\ DocsAfter = DocsBefore
          /\ VecsAfter = VecsBefore]_vars

\* C8: the count a successful 'delete_documents' action reports is the number
\* of requested ids that were present in the collection before the call.
C8_DeleteCountIsRemoved ==
  [][DeleteSucceeded =>
       last'.count = Cardinality({id \in Requested : HasKey(DocsBefore, Str(id))})]_vars

\* C9: add_documents is atomic: a call that fails (returns no ids) inserts no
\* document of its batch; the doc map and the vectors of the collection are
\* what they were before the call.
C9_AddAtomic ==
  [][(last'.op = "add_documents" /\ ~last'.error /\ last'.ret_ids = <<>>)
       => /\ DocsAfter = DocsBefore
          /\ VecsAfter = VecsBefore]_vars

\* a two-document batch whose second document has no 'text' failed on a
\* collection that holds a document, with the embedder working
C9_Witness ==
  /\ last.op = "add_documents"
  /\ ~last.error
  /\ last.ret_ids = <<>>
  /\ Len(last.documents) = 2
  /\ last.documents[1].text # Missing
  /\ last.documents[2].text = Missing
  /\ last.fault = "none"
  /\ model
  /\ Size(last.name) = 1

\* C10: search returns at most k results, and exactly min(k, n) of them when
\* the collection holds n > 0 documents.
C10_SearchKBound ==
  last.op = "search" =>
    /\ Len(last.results) <= last.k
    /\ Size(last.name) > 0 =>
         Len(last.results) = (IF last.k < Size(last.name) THEN last.k ELSE Size(last.name))

\* the same bound for the searches in which the embedder is loaded and encodes
\* the query to the index's dimension
SearchKBoundWhenEmbedded ==
  (last.op = "search" /\ model /\ last.fault = "none") =>
    /\ Len(last.results) <= last.k
    /\ Size(last.name) > 0 =>
         Len(last.results) = (IF last.k < Size(last.name) THEN last.k ELSE Size(last.name))

\* the squared L2 distance between the embeddings of the query of the last
\* search and of `text`
QueryDistance(text) == L2(Encode(last.query, "ok"), Encode(text, "ok"))

\* the stored documents of the searched collection that the last search left out
LeftOut ==
  {p \in 1..Len(StoredDocs(last.name)) :
     \A i \in 1..Len(last.results) :
       last.results[i].id # ParseInt(StoredDocs(last.name)[p].key)}

C11_WitnessOrdered ==
  /\ last.op = "search"
  /\ Len(last.results) = 2
  /\ QueryDistance(last.results[1].text) < QueryDistance(last.results[2].text)

\* the last call is an add_documents that returned ids
AddSucceeded == last.op \in {"add_documents", "add_to_knowledge"} /\ last.ret_ids # <<>>

\* C12: an add_documents call that succeeds with n documents returns n ids,
\* strictly increasing, and the i-th id is the key under which the text and the
\* metadata of the i-th input document are stored (no metadata is stored as the
\* empty metadata).
C12_AddReturnsIdsInOrder ==
  AddSucceeded =>
    /\ Len(last.ret_ids) = Len(last.documents)
    /\ \A i, j \in 1..Len(last.ret_ids) : i < j => last.ret_ids[i] < last.ret_ids[j]
    /\ \A i \in 1..Len(last.ret_ids) :
         /\ HasKey(StoredDocs(last.name), Str(last.ret_ids[i]))
         /\ DictGet(StoredDocs(last.name), Str(last.ret_ids[i]))
              = [text |-> last.documents[i].text,
                 metadata |-> IF last.documents[i].metadata = Missing THEN EmptyMeta
                              ELSE last.documents[i].metadata]

\* two different documents were added in one call
C12_Witness ==
  /\ AddSucceeded
  /\ Len(last.documents) = 2
  /\ last.documents[1] # last.documents[2]

\* the last call wrote the indexes to disk: an add_documents that returned ids,
\* or a delete_documents that re-added the remaining documents, with no write
\* failing
Saved ==
  /\ last.fault = "none"
  /\ \/ AddSucceeded
     \/ last.op = "delete_documents" /\ ~last.error /\ last.success /\ Size(last.name) > 0

\* a fresh VectorStore on the storage directory as it is, with the embedder in
\* the state it has in the running store
Reloaded == NewVectorStore(model, disk, "none")

\* C13: after save_indexes a fresh VectorStore loaded from the same path holds
\* every collection with the same vectors and the same ids, texts and metadata
\* as the store that saved, and every search on it has the same outcomes.
C13_PersistLoadRoundTrip ==
  Saved =>
    /\ Reloaded.indexes = indexes
    /\ Reloaded.document_maps = document_maps
    /\ \A name \in IndexNames, query \in Queries, k \in 1..MaxK :
         search(Reloaded, name, query, k, "ok") = search(Self, name, query, k, "ok")

\* the indexes were saved with two different documents in a collection
C13_Witness ==
  /\ Saved
  /\ \E name \in DOMAIN indexes :
       /\ Len(indexes[name].vecs) = 2
       /\ indexes[name].vecs[1] # indexes[name].vecs[2]
       /\ Len(document_maps[name]) = 2
       /\ disk.faiss[name].xb = indexes[name].vecs[1] \o indexes[name].vecs[2]

\* C14: a VectorStore constructed on a storage directory in which the metadata
\* file, a .faiss file or a doc map file is corrupted, unreadable or missing
\* reports an error, or else holds everything the directory's files hold: it
\* never silently comes up with fewer collections or documents.
C14_DamagedLoadReportsError ==
  (last.op = "restart" /\ last.fault # "none") =>
    \/ last.error
    \/ /\ indexes = Reloaded.indexes
       /\ document_maps = Reloaded.document_maps

\* C15: add_documents returns ids only for documents that were persisted: when
\* it returns ids, a fresh VectorStore on the storage directory holds each
\* returned id with the text of its document (a failed write gives an error
\* instead of ids).
C15_SaveFailureSurfaced ==
  AddSucceeded =>
    \A i \in 1..Len(last.ret_ids) :
      /\ HasKey(DocsOf(Reloaded.document_maps, last.name), Str(last.ret_ids[i]))
      /\ DictGet(DocsOf(Reloaded.document_maps, last.name), Str(last.ret_ids[i])).text
           = last.documents[i].text

\* C16: a search on a collection name that does not exist reports an error: its
\* outcome differs from the outcome of a search on an existing empty collection,
\* which is an empty result list without an error.
C16_SearchMissingCollection ==
  (last.op = "search" /\ ~index_exists(Self, last.name)) =>
    \/ last.error
    \/ last.results # <<>>

\* C17: an add_documents with an empty list of documents is rejected with an
\* error and changes nothing, through the 'add_documents' action of
\* RetrieverAgent.process and through the call that hands the list to
\* VectorStore.add_documents as it is.
C17_EmptyAddRejected ==
  [][(last'.op \in {"add_documents", "add_to_knowledge"} /\ last'.documents = <<>>)
       => /\ last'.error
          /\ indexes' = indexes
          /\ document_maps' = document_maps]_vars

SearchedDuringDelete(t) ==
  /\ calls = 2
  /\ threads[t].op = "search"
  /\ threads[t].pc = "done"
  /\ \E u \in Threads \ {t} : threads[u].op = "delete_documents"

\* C18: a search that runs while another thread is in delete_documents on the
\* same collection does not see the collection missing or empty or without a
\* document that is not being deleted: asked for as many results as the
\* collection can hold, it returns "apple pie", which no delete names.
C18_RebuildAtomicForSearch ==
  \A t \in Threads :
    SearchedDuringDelete(t) =>
      \E i \in 1..Len(threads[t].results) : threads[t].results[i].text = ApplePie.text

\* the calls made so far are two add_documents, one by each thread, and both
\* have returned ids
TwoAddsReturned ==
  /\ calls = 2
  /\ \A t \in Threads :
       /\ threads[t].op = "add_documents"
       /\ threads[t].pc = "done"
       /\ threads[t].ret_ids # <<>>

\* C19: when two add_documents calls on one collection interleave, the ids they
\* return are distinct, each id holds the document it was returned for, and the
\* doc map has as many entries as the index has vectors.
C19_ConcurrentAddsExclusive ==
  TwoAddsReturned =>
    /\ \A t, u \in Threads : t # u => Range(threads[t].ret_ids) \cap Range(threads[u].ret_ids) = {}
    /\ \A name \in DOMAIN indexes :
         Len(DocsOf(document_maps, name)) = Len(indexes[name].vecs)

\* C21: two results of a search at the same distance from the query come in
\* ascending order of id.
C21_TieBreakById ==
  last.op = "search" =>
    \A i, j \in 1..Len(last.results) :
      (i < j /\ QueryDistance(last.results[i].text) = QueryDistance(last.results[j].text))
        => last.results[i].id < last.results[j].id

\* C22: every result's score is 1 - min(distance / 100, 1) of its document's
\* L2 distance to the query (in hundredths): it lies in [0, 1], is 0 for every
\* distance of 100 or more, and does not increase along the result list.
C22_ScoreRange ==
  last.op = "search" =>
    /\ \A i \in 1..Len(last.results) :
         /\ last.results[i].score >= 0
         /\ last.results[i].score <= 100
         /\ QueryDistance(last.results[i].text) >= 100 => last.results[i].score = 0
         /\ QueryDistance(last.results[i].text) < 100
              => last.results[i].score = 100 - QueryDistance(last.results[i].text)
    /\ \A i, j \in 1..Len(last.results) :
         i < j => last.results[i].score >= last.results[j].score

\* a search returned a document nearer than 100 and then one farther than 100
C22_Witness ==
  /\ last.op = "search"
  /\ Len(last.results) = 2
  /\ QueryDistance(last.results[1].text) < 100
  /\ last.results[1].score > 0
  /\ QueryDistance(last.results[2].text) > 100
  /\ last.results[2].score = 0

\* in store vs every collection's doc map has exactly the keys 0..n-1, n being
\* the number of vectors of its index, and the vector at position i is the
\* embedding of the text stored under key i
Aligned(vs) ==
  \A name \in DOMAIN vs.indexes :
    /\ name \in DOMAIN vs.document_maps
    /\ Len(vs.document_maps[name]) = Len(vs.indexes[name].vecs)
    /\ \A i \in 0..(Len(vs.indexes[name].vecs) - 1) :
         /\ HasKey(vs.document_maps[name], Str(i))
         /\ vs.indexes[name].vecs[i + 1]
              = Encode(DictGet(vs.document_maps[name], Str(i)).text, "ok")

\* the running store and the store the saved files load into are aligned
AlignedAll == Aligned(Self) /\ Aligned(Reloaded)

C24_FailedAddCreatesNothing ==
  [][(/\ last'.op \in {"add_documents", "add_to_knowledge"}
      /\ ~last'.error
      /\ last'.ret_ids = <<>>
      /\ ~index_exists(Self, last'.name))
       => last'.name \notin DOMAIN indexes']_vars

\* C25: wherever the process stopped during save_indexes, a later load yields
\* for every loaded collection an index and a doc map with the same number of
\* entries.
C25_CrashConsistentSave ==
  \A name \in DOMAIN Reloaded.indexes :
    Len(DocsOf(Reloaded.document_maps, name)) = Len(Reloaded.indexes[name].vecs)

\* the texts of the documents a load of the files dk yields
DiskTexts(dk) ==
  LET vs == NewVectorStore(TRUE, dk, "none")
  IN UNION {{vs.document_maps[name][i].doc.text : i \in 1..Len(vs.document_maps[name])} :
              name \in DOMAIN vs.document_maps}

\* C26: no update is lost between two VectorStore instances on one storage
\* path: a save made by an add_documents of either instance removes no
\* document from the files (nothing is deleted in these runs).
C26_NoLostUpdates ==
  [][(last'.op \in {"add_documents", "peer_add_documents"} /\ last'.ret_ids # <<>>)
       => DiskTexts(disk) \subseteq DiskTexts(disk')]_vars

\* the number of documents stored under `name` whose text is `text`
Copies(name, text) ==
  Cardinality({i \in 1..Len(StoredDocs(name)) : StoredDocs(name)[i].doc.text = text})

LookedUp(t) == callers[t].pc = "idle" /\ callers'[t] # callers[t]

\* thread t's lookup returned a result without calling the function
Served(t) ==
  /\ callers'[t].pc = "idle"
  /\ callers'[t].outcome = "returned"
  /\ ~callers'[t].invoked

\* C28: a @cached call returns the stored result without invoking the function
\* exactly when an entry for its key exists with age strictly less than
\* ttl_seconds; otherwise the function is invoked and its result is stored with
\* the current time; a call that raises stores nothing.
C28_TtlCacheSemantics ==
  [][\A t \in Threads :
       /\ LookedUp(t) =>
            LET key == callers'[t].key
                hit == key \in DOMAIN cache /\ now - cache[key].timestamp < TtlSeconds
            IN /\ Served(t) <=> hit
               /\ hit => callers'[t].result = cache[key].result
               /\ ~hit => callers'[t].pc = "func"
               /\ cache' = cache
       /\ (callers[t].pc = "func" /\ callers'[t] # callers[t]) =>
            /\ callers'[t].invoked
            /\ cache' = cache
            /\ callers'[t].outcome = "raised" <=> callers'[t].pc = "idle"
       /\ (callers[t].pc = "store" /\ callers'[t] # callers[t]) =>
            /\ callers[t].key \in DOMAIN cache'
            /\ cache'[callers[t].key] = [result |-> callers[t].result, timestamp |-> now]
            /\ callers'[t].result = callers[t].result
            /\ callers'[t].outcome = "returned"]_vars

\* a lookup found its entry at age ttl_seconds exactly and went on to call
C28_Witness ==
  \E t \in Threads :
    /\ callers[t].pc = "func"
    /\ callers[t].key \in DOMAIN cache
    /\ now - cache[callers[t].key].timestamp = TtlSeconds

\* C29: of concurrent calls with the same key and no fresh entry only one
\* invokes the wrapped function: never have two threads both invoked it for
\* the same key with their results still to be stored.
C29_SingleInvocation ==
  \A t1, t2 \in Threads :
    (t1 # t2 /\ callers[t1].pc = "store" /\ callers[t2].pc = "store")
      => callers[t1].key # callers[t2].key

\* C30: when main of start.py has ended, no child it started is still running
\* without having been sent terminate.
C30_NoChildLeftRunning ==
  supervisor.pc = "exited" =>
    /\ supervisor.api # "running"
    /\ supervisor.streamlit # "running"

====
